---- MODULE Spec2Model ----
(***************************************************************************)
(* Account / ledger consistency of the finance service.                    *)
(*                                                                         *)
(* The store holds two collections, accounts and transactions (the        *)
(* ledger).  Every HTTP request is served by an independent worker that    *)
(* performs blocking store calls one after another; a step of the model is *)
(* one store call of one worker together with the local computation that   *)
(* follows it.  The store itself is taken to be available: FindOne,        *)
(* UpdateOne, InsertOne and Find fail only for the reasons the code tests. *)
(* Amounts and balances are float64 in the code and small integers here.   *)
(***************************************************************************)
EXTENDS Integers, Sequences, FiniteSets, TLC

\* --------------------------------------------------------------- bounds

\* CreateAccount requests accepted over a run.
MaxCreates == 2
\* CreateTransaction requests accepted over a run.
MaxApplies == 2
\* Requests of both kinds accepted over a run.
MaxRequests == 3
\* Workers serving requests concurrently (one goroutine per request).
Workers == {"w1", "w2"}
\* The one worker of the sequential specification.
SeqWorker == "w1"

\* Request inputs.
Names == {"John"}
Emails == {"j@x.com", "k@x.com"}
InitialBalances == {-1, 0, 1}
Amounts == {-1, 0, 1}
TypeStrings == {"DEPOSIT", "withdraw", "TRANSFER", "FOO", ""}

\* Bodies of POST /accounts that decode: every name, email and initial
\* balance above, and bodies lacking the name, the email or both (a field
\* a body lacks decodes to its zero value).
CreateBodies ==
    [kind : {"create"}, name : Names, email : Emails, balance : InitialBalances]
        \cup [kind : {"create"}, name : {""}, email : {"", "j@x.com"}, balance : {0}]
        \cup [kind : {"create"}, name : Names, email : {""}, balance : {0}]

\* ------------------------------------------------------ program constants

Deposit == "DEPOSIT"
Withdraw == "WITHDRAW"
Transfer == "TRANSFER"

StatusCreated == 201
StatusOK == 200
StatusBadRequest == 400
StatusInternalServerError == 500

\* The zero ObjectID (primitive.NilObjectID); generated ids are 1, 2, ...
NilObjectID == 0

\* ------------------------------------------------------------ identifiers

\* An id string of a request: the empty string, a string that is no hex
\* ObjectID, or the hex form of ObjectID n.
EmptyIdString == <<"empty", 0>>
MalformedIdString == <<"malformed", 0>>
Hex(oid) == <<"hex", oid>>

\* Mutant of the parse: what is no hex ObjectID parses to the zero id.
ObjectIDFromHexLenient(s) ==
    IF s[1] = "hex" THEN [err |-> "", oid |-> s[2]]
    ELSE [err |-> "", oid |-> 0]

\* primitive.ObjectIDFromHex
ObjectIDFromHex(s) ==
    IF s[1] = "hex" THEN [err |-> "", oid |-> s[2]]
    ELSE [err |-> "invalid hex", oid |-> NilObjectID]

\* strings.ToUpper on the type strings of the requests.
ToUpper(s) ==
    CASE s = "deposit" -> "DEPOSIT"
      [] s = "withdraw" -> "WITHDRAW"
      [] s = "transfer" -> "TRANSFER"
      [] s = "foo" -> "FOO"
      [] OTHER -> s

VARIABLES
    accounts,   \* the accounts collection, in insertion order
    ledger,     \* the transactions collection, in insertion order
    now,        \* the clock, in the resolution of primitive.DateTime
    started,    \* requests accepted so far, per kind
    pc,         \* pc[w]: where worker w stands in its handler
    req,        \* req[w]: the decoded request body
    account,    \* account[w]: the handler's local copy of the account
    resp,       \* resp[w]: the envelopes written to the response writer
    pre         \* pre[w]: what the store held for the request when it began

vars == <<accounts, ledger, now, started, pc, req, account, resp, pre>>

NoRequest == [kind |-> "none"]
\* A body json.Decode rejects.
Undecodable == [kind |-> "undecodable"]
NoAccount == [id |-> NilObjectID, balance |-> 0, name |-> "", email |-> "", createdAt |-> 0]

NoSnapshot == [id |-> NilObjectID, balance |-> 0, entries |-> 0, accounts |-> 0, seen |-> 0]

\* Clock readings since the last stamp: the same millisecond or a later
\* one.  Nothing is stamped at the instant of construction.
Elapsed == IF now = 0 THEN {1} ELSE {0, 1}

\* ObjectIDs are unique over both collections.
NewObjectID == Len(accounts) + Len(ledger) + 1

\* Id strings that name no account: the empty string, a malformed one and
\* the hex of an id no account has.
UnknownIdStrings == {EmptyIdString, MalformedIdString, Hex(NewObjectID)}

\* Id strings of the stored accounts.
KnownIdStrings == { Hex(accounts[i].id) : i \in 1..Len(accounts) }

IdStrings == UnknownIdStrings \cup KnownIdStrings

\* Bodies of POST /transactions that decode: every type and amount on
\* every stored account, and deposits of 0 (the amount a body lacks) and
\* of 1 on the ids that name no account.
ApplyBodies ==
    [kind : {"apply"}, accountId : KnownIdStrings, transactionType : TypeStrings, amount : Amounts]
        \cup [kind : {"apply"}, accountId : UnknownIdStrings, transactionType : {"DEPOSIT"}, amount : {0, 1}]

\* ---------------------------------------------------------- account store

AccountIndexes(accs, oid) == { i \in 1..Len(accs) : accs[i].id = oid }

\* Mutant of the lookup: no document is not an error, and the account
\* returned carries the id that was asked for.
FindOneIgnoringNoDocuments(accs, id) ==
    IF id = EmptyIdString THEN [err |-> "account ID cannot be empty", account |-> NoAccount]
    ELSE LET p == ObjectIDFromHex(id) IN
         IF p.err # "" THEN [err |-> "invalid account ID format", account |-> NoAccount]
         ELSE IF AccountIndexes(accs, p.oid) = {}
              THEN [err |-> "", account |-> [NoAccount EXCEPT !.id = p.oid]]
              ELSE [err |-> "", account |-> accs[CHOOSE i \in AccountIndexes(accs, p.oid) : TRUE]]

\* AccountsMongoRepository.FindOne
FindOne(accs, id) ==
    IF id = EmptyIdString THEN [err |-> "account ID cannot be empty", account |-> NoAccount]
    ELSE LET p == ObjectIDFromHex(id) IN
         IF p.err # "" THEN [err |-> "invalid account ID format", account |-> NoAccount]
         ELSE IF AccountIndexes(accs, p.oid) = {}
              THEN [err |-> "account not found", account |-> NoAccount]
              ELSE [err |-> "", account |-> accs[CHOOSE i \in AccountIndexes(accs, p.oid) : TRUE]]

\* Mutant of the write: the filter on _id is missing.
SetBalanceEverywhere(accs, oid, newBalance) ==
    [ i \in 1..Len(accs) |-> [accs[i] EXCEPT !.balance = newBalance] ]

\* Mutant of the write: the value is added to the stored balance.
SetBalanceAdding(accs, oid, newBalance) ==
    [ i \in 1..Len(accs) |->
        IF accs[i].id = oid THEN [accs[i] EXCEPT !.balance = @ + newBalance] ELSE accs[i] ]

\* collection.UpdateOne(_id = oid, $set balance)
SetBalance(accs, oid, newBalance) ==
    [ i \in 1..Len(accs) |->
        IF accs[i].id = oid THEN [accs[i] EXCEPT !.balance = newBalance] ELSE accs[i] ]

\* Mutants of the guard: one that is missing, one that is off by one.
BalanceRejectedNever(newBalance) == FALSE
BalanceRejectedBelowMinusOne(newBalance) == newBalance < -1

\* The guard of UpdateBalance on the value the caller supplies.
BalanceRejected(newBalance) == newBalance < 0

\* Mutant of the lookup: a filter on the wrong field.
EmailIndexesByName(accs, email) == { i \in 1..Len(accs) : accs[i].name = email }

\* Accounts holding an email (the filter of CreateAccount's lookup).
EmailIndexes(accs, email) == { i \in 1..Len(accs) : accs[i].email = email }

\* ----------------------------------------------------------------- ledger

\* Mutant of the validation: the amount test off by one.
ValidateTransactionAllowingZero(tx) ==
    IF tx.type = "" THEN "transaction type is required"
    ELSE IF tx.amount < 0 THEN "amount must be greater than 0"
    ELSE IF tx.accountId = NilObjectID THEN "account ID is required"
    ELSE IF tx.type \notin {"DEPOSIT", "WITHDRAW", "TRANSFER"} THEN "invalid transaction type"
    ELSE ""

\* The validation of TransactionMongoRepository.Create: "" when it passes.
ValidateTransaction(tx) ==
    IF tx.type = "" THEN "transaction type is required"
    ELSE IF tx.amount <= 0 THEN "amount must be greater than 0"
    ELSE IF tx.accountId = NilObjectID THEN "account ID is required"
    ELSE IF tx.type \notin {Deposit, Withdraw, Transfer} THEN "invalid transaction type"
    ELSE ""

\* Mutant of the insert: a replace of the newest entry.
InsertTransactionReplacing(ledg, tx) ==
    IF ledg = <<>> THEN <<tx>> ELSE [ledg EXCEPT ![Len(ledg)] = tx]

\* collection.InsertOne on the ledger.
InsertTransaction(ledg, tx) == Append(ledg, tx)

\* Mutant of the switch: a withdrawal adds.
ComputeBalanceWithdrawAdds(type, balance, amount) ==
    CASE type = "DEPOSIT" -> balance + amount
      [] type = "WITHDRAW" -> balance + amount
      [] OTHER -> balance

\* The balance the handler computes in its switch on the type.
ComputeBalance(type, balance, amount) ==
    CASE type = Deposit -> balance + amount
      [] type = Withdraw -> balance - amount
      [] OTHER -> balance

\* Whether the switch takes its default branch.
TypeUnhandled(type) == type \notin {Deposit, Withdraw}

\* The orders in which a sort on created_at descending may return the
\* entries at the indexes I: ties have no defined order.
NewestFirst(ledg, I) ==
    { s \in [1..Cardinality(I) -> I] :
        /\ \A i, j \in 1..Cardinality(I) : i # j => s[i] # s[j]
        /\ \A i, j \in 1..Cardinality(I) :
              i < j => ledg[s[i]].createdAt >= ledg[s[j]].createdAt }

Entries(ledg, s) == [ i \in 1..Len(s) |-> ledg[s[i]] ]

\* Mutant of the filter: every entry matches.
LedgerIndexesUnfiltered(ledg, oid) == 1..Len(ledg)

\* Indexes of the ledger entries of one account.
LedgerIndexes(ledg, oid) == { i \in 1..Len(ledg) : ledg[i].accountId = oid }

\* ----------------------------------------------------------------- replies

ErrorResponse(status, error) ==
    [status |-> status, success |-> FALSE, error |-> error]

\* utils.SendJSONResponse: one more envelope on the worker's writer.
Send(w, r) == resp' = [resp EXCEPT ![w] = Append(@, r)]

\* Observation only (no counterpart in the code): what the store holds,
\* when a request begins, for the account the request is about, which is
\* the account of the body's id, or the first account holding the body's
\* email: the account's id and balance, the number of its ledger entries,
\* and the number of accounts.
Snapshot(body) ==
    LET I == { i \in 1..Len(accounts) :
                  \/ body.kind = "create" /\ accounts[i].email = body.email
                  \/ body.kind \in {"apply", "list"} /\ Hex(accounts[i].id) = body.accountId }
    IN IF I = {} THEN [NoSnapshot EXCEPT !.accounts = Len(accounts)]
       ELSE LET a == accounts[CHOOSE i \in I : \A j \in I : i <= j]
            IN [id |-> a.id, balance |-> a.balance,
                entries |-> Cardinality({ k \in 1..Len(ledger) : ledger[k].accountId = a.id }),
                accounts |-> Len(accounts), seen |-> 0]

\* Observation only (no counterpart in the code): for every worker that
\* has read its account again and not yet read the history, seen is the
\* number of ledger entries of that account in the latest store state in
\* which the stored balance was the one the worker read.
Watched(accs, ledg) ==
    [ u \in Workers |->
        IF /\ pc[u] = "ct_list"
           /\ \E i \in 1..Len(accs) :
                 accs[i].id = account[u].id /\ accs[i].balance = account[u].balance
        THEN [pre[u] EXCEPT
                 !.seen = Cardinality({ k \in 1..Len(ledg) : ledg[k].accountId = account[u].id })]
        ELSE pre[u] ]

Init ==
    /\ accounts = <<>>
    /\ ledger = <<>>
    /\ now = 0
    /\ started = [create |-> 0, apply |-> 0]
    /\ pc = [w \in Workers |-> "idle"]
    /\ req = [w \in Workers |-> NoRequest]
    /\ account = [w \in Workers |-> NoAccount]
    /\ resp = [w \in Workers |-> <<>>]
    /\ pre = [w \in Workers |-> NoSnapshot]

\* ------------------------------------------- AccountHandler.CreateAccount

\* Mutant of the validation: the email is not tested.
BeginCreateAccountEmailUnchecked(w) ==
    /\ pc[w] = "idle"
    /\ started.create < MaxCreates
    /\ started.create + started.apply < MaxRequests
    /\ \E body \in CreateBodies \cup {Undecodable} :
        /\ req' = [req EXCEPT ![w] = body]
        /\ IF body = Undecodable
           THEN /\ resp' = [resp EXCEPT ![w] = <<ErrorResponse(StatusBadRequest, "Invalid request body")>>]
                /\ pc' = [pc EXCEPT ![w] = "done"]
           ELSE IF body.name = ""
           THEN /\ resp' = [resp EXCEPT ![w] = <<ErrorResponse(StatusBadRequest, "Name is required")>>]
                /\ pc' = [pc EXCEPT ![w] = "done"]
           ELSE /\ resp' = [resp EXCEPT ![w] = <<>>]
                /\ pc' = [pc EXCEPT ![w] = "ca_lookup"]
    /\ started' = [started EXCEPT !.create = @ + 1]
    /\ pre' = [pre EXCEPT ![w] = Snapshot(req'[w])]
    /\ account' = [account EXCEPT ![w] = NoAccount]
    /\ UNCHANGED <<accounts, ledger, now>>

\* Decode and validate the body; a body that does not decode, or lacks
\* the name or the email, is answered at once.
BeginCreateAccount(w) ==
    /\ pc[w] = "idle"
    /\ started.create < MaxCreates
    /\ started.create + started.apply < MaxRequests
    /\ \E body \in CreateBodies \cup {Undecodable} :
        /\ req' = [req EXCEPT ![w] = body]
        /\ IF body = Undecodable
           THEN /\ resp' = [resp EXCEPT ![w] = <<ErrorResponse(StatusBadRequest, "Invalid request body")>>]
                /\ pc' = [pc EXCEPT ![w] = "done"]
           ELSE IF body.name = ""
           THEN /\ resp' = [resp EXCEPT ![w] = <<ErrorResponse(StatusBadRequest, "Name is required")>>]
                /\ pc' = [pc EXCEPT ![w] = "done"]
           ELSE IF body.email = ""
           THEN /\ resp' = [resp EXCEPT ![w] = <<ErrorResponse(StatusBadRequest, "Email is required")>>]
                /\ pc' = [pc EXCEPT ![w] = "done"]
           ELSE /\ resp' = [resp EXCEPT ![w] = <<>>]
                /\ pc' = [pc EXCEPT ![w] = "ca_lookup"]
    /\ started' = [started EXCEPT !.create = @ + 1]
    /\ pre' = [pre EXCEPT ![w] = Snapshot(req'[w])]
    /\ account' = [account EXCEPT ![w] = NoAccount]
    /\ UNCHANGED <<accounts, ledger, now>>

\* AccountsMongoRepository.CreateAccount, the lookup by email.  A hit ends
\* the request with the old account's id copied into the reply.
CreateAccountLookup(w) ==
    /\ pc[w] = "ca_lookup"
    /\ IF EmailIndexes(accounts, req[w].email) # {}
       THEN \E i \in EmailIndexes(accounts, req[w].email) :
              /\ account' = [account EXCEPT ![w] =
                    [id |-> accounts[i].id, balance |-> req[w].balance, name |-> req[w].name,
                     email |-> req[w].email, createdAt |-> 0]]
              /\ Send(w, ErrorResponse(StatusBadRequest, "account with this email already exists"))
              /\ pc' = [pc EXCEPT ![w] = "done"]
       ELSE /\ pc' = [pc EXCEPT ![w] = "ca_insert"]
            /\ UNCHANGED <<account, resp>>
    /\ UNCHANGED <<accounts, ledger, now, started, req, pre>>

\* AccountsMongoRepository.CreateAccount, the insert, and the reply.
CreateAccountInsert(w) ==
    /\ pc[w] = "ca_insert"
    /\ \E dt \in Elapsed :
        LET created == [id |-> NewObjectID, balance |-> req[w].balance, name |-> req[w].name,
                        email |-> req[w].email, createdAt |-> now + dt]
        IN /\ now' = now + dt
           /\ accounts' = Append(accounts, created)
           /\ account' = [account EXCEPT ![w] = created]
    /\ Send(w, [status |-> StatusCreated, success |-> TRUE, error |-> ""])
    /\ pc' = [pc EXCEPT ![w] = "done"]
    /\ UNCHANGED <<ledger, started, req, pre>>

\* --------------------------------- TransactionHandler.CreateTransaction

BeginCreateTransaction(w) ==
    /\ pc[w] = "idle"
    /\ started.apply < MaxApplies
    /\ started.create + started.apply < MaxRequests
    /\ \E body \in ApplyBodies \cup {Undecodable} :
        /\ req' = [req EXCEPT ![w] = body]
        /\ IF body = Undecodable
           THEN /\ resp' = [resp EXCEPT ![w] = <<ErrorResponse(StatusBadRequest, "invalid body")>>]
                /\ pc' = [pc EXCEPT ![w] = "done"]
           ELSE /\ resp' = [resp EXCEPT ![w] = <<>>]
                /\ pc' = [pc EXCEPT ![w] = "ct_find"]
    /\ started' = [started EXCEPT !.apply = @ + 1]
    /\ pre' = [pre EXCEPT ![w] = Snapshot(req'[w])]
    /\ account' = [account EXCEPT ![w] = NoAccount]
    /\ UNCHANGED <<accounts, ledger, now>>

\* The lookup of the account, then the switch on the type, which computes
\* the new balance in the local copy; its default branch writes an error
\* envelope and falls through.
ApplyFind(w) ==
    /\ pc[w] = "ct_find"
    /\ LET r == FindOne(accounts, req[w].accountId)
           type == ToUpper(req[w].transactionType)
       IN IF r.err # ""
          THEN /\ Send(w, ErrorResponse(StatusBadRequest, r.err))
               /\ pc' = [pc EXCEPT ![w] = "done"]
               /\ UNCHANGED account
          ELSE /\ account' = [account EXCEPT ![w] =
                     [r.account EXCEPT !.balance = ComputeBalance(type, r.account.balance, req[w].amount)]]
               /\ IF TypeUnhandled(type)
                  THEN Send(w, ErrorResponse(StatusBadRequest, "Invalid transaction type"))
                  ELSE UNCHANGED resp
               /\ pc' = [pc EXCEPT ![w] = "ct_update_find"]
    /\ UNCHANGED <<accounts, ledger, now, started, req, pre>>

\* Mutant of the call of UpdateBalance: the error it returns is dropped and
\* the handler goes on to Create.
UpdateBalanceCheckErrorDropped(w) ==
    /\ pc[w] = "ct_update_find"
    /\ IF FindOne(accounts, Hex(account[w].id)).err # "" \/ account[w].balance < 0
       THEN pc' = [pc EXCEPT ![w] = "ct_create"]
       ELSE pc' = [pc EXCEPT ![w] = "ct_update_set"]
    /\ UNCHANGED <<accounts, ledger, now, started, req, account, resp, pre>>

\* AccountsMongoRepository.UpdateBalance up to its write: the lookup by id
\* and the test of the balance the handler computed.
UpdateBalanceCheck(w) ==
    /\ pc[w] = "ct_update_find"
    /\ LET r == FindOne(accounts, Hex(account[w].id))
       IN IF r.err # ""
          THEN /\ Send(w, ErrorResponse(StatusInternalServerError, r.err))
               /\ pc' = [pc EXCEPT ![w] = "done"]
          ELSE IF BalanceRejected(account[w].balance)
          THEN /\ Send(w, ErrorResponse(StatusInternalServerError, "balance cannot be negative"))
               /\ pc' = [pc EXCEPT ![w] = "done"]
          ELSE /\ pc' = [pc EXCEPT ![w] = "ct_update_set"]
               /\ UNCHANGED resp
    /\ UNCHANGED <<accounts, ledger, now, started, req, account, pre>>

\* AccountsMongoRepository.UpdateBalance, the write of the absolute value.
UpdateBalanceSet(w) ==
    /\ pc[w] = "ct_update_set"
    /\ accounts' = SetBalance(accounts, account[w].id, account[w].balance)
    /\ pc' = [pc EXCEPT ![w] = "ct_create"]
    /\ pre' = Watched(accounts', ledger)
    /\ UNCHANGED <<ledger, now, started, req, account, resp>>

\* Mutant of the handler: a failed Create is compensated by writing back
\* the balance the request found.
ApplyCreateCompensating(w) ==
    /\ pc[w] = "ct_create"
    /\ LET tx == [type |-> ToUpper(req[w].transactionType), amount |-> req[w].amount,
                  accountId |-> account[w].id]
           v == ValidateTransaction(tx)
       IN IF v # ""
          THEN /\ Send(w, ErrorResponse(StatusBadRequest, v))
               /\ pc' = [pc EXCEPT ![w] = "done"]
               /\ accounts' = SetBalance(accounts, account[w].id, pre[w].balance)
               /\ UNCHANGED <<ledger, now>>
          ELSE /\ \E dt \in Elapsed :
                    /\ now' = now + dt
                    /\ ledger' = InsertTransaction(ledger,
                          [id |-> NewObjectID, type |-> tx.type, amount |-> tx.amount,
                           accountId |-> tx.accountId, createdAt |-> now + dt])
               /\ pc' = [pc EXCEPT ![w] = "ct_reread"]
               /\ UNCHANGED <<resp, accounts>>
    /\ pre' = Watched(accounts', ledger')
    /\ UNCHANGED <<started, req, account>>

\* TransactionMongoRepository.Create on the record the handler builds.
ApplyCreate(w) ==
    /\ pc[w] = "ct_create"
    /\ LET tx == [type |-> ToUpper(req[w].transactionType), amount |-> req[w].amount,
                  accountId |-> account[w].id]
           v == ValidateTransaction(tx)
       IN IF v # ""
          THEN /\ Send(w, ErrorResponse(StatusBadRequest, v))
               /\ pc' = [pc EXCEPT ![w] = "done"]
               /\ UNCHANGED <<ledger, now>>
          ELSE /\ \E dt \in Elapsed :
                    /\ now' = now + dt
                    /\ ledger' = InsertTransaction(ledger,
                          [id |-> NewObjectID, type |-> tx.type, amount |-> tx.amount,
                           accountId |-> tx.accountId, createdAt |-> now + dt])
               /\ pc' = [pc EXCEPT ![w] = "ct_reread"]
               /\ UNCHANGED resp
    /\ pre' = Watched(accounts, ledger')
    /\ UNCHANGED <<accounts, started, req, account>>

\* The reply's account: read again after both writes.
ApplyReread(w) ==
    /\ pc[w] = "ct_reread"
    /\ LET r == FindOne(accounts, Hex(account[w].id))
       IN IF r.err # ""
          THEN /\ Send(w, ErrorResponse(StatusInternalServerError, "Failed to fetch updated account"))
               /\ pc' = [pc EXCEPT ![w] = "done"]
               /\ UNCHANGED <<account, pre>>
          ELSE /\ account' = [account EXCEPT ![w] = r.account]
               /\ pc' = [pc EXCEPT ![w] = "ct_list"]
               /\ pre' = [pre EXCEPT ![w].seen =
                              Cardinality({ k \in 1..Len(ledger) : ledger[k].accountId = r.account.id })]
               /\ UNCHANGED resp
    /\ UNCHANGED <<accounts, ledger, now, started, req>>

\* The reply's history (GetByAccountID), and the success envelope.
ApplyReply(w) ==
    /\ pc[w] = "ct_list"
    /\ \E s \in NewestFirst(ledger, LedgerIndexes(ledger, account[w].id)) :
          Send(w, [status |-> StatusCreated, success |-> TRUE, error |-> "",
                   account |-> account[w], transactions |-> Entries(ledger, s)])
    /\ pc' = [pc EXCEPT ![w] = "done"]
    /\ UNCHANGED <<accounts, ledger, now, started, req, account, pre>>

\* ------------------------------------------------------------- read paths

\* TransactionHandler.GetTransactionsByAccountID
ListAccountTransactions(w) ==
    /\ pc[w] = "idle"
    /\ \E id \in IdStrings :
        /\ req' = [req EXCEPT ![w] = [kind |-> "list", accountId |-> id]]
        /\ IF id = EmptyIdString
           THEN resp' = [resp EXCEPT ![w] = <<ErrorResponse(StatusBadRequest, "Account ID is required")>>]
           ELSE IF ObjectIDFromHex(id).err # ""
           THEN resp' = [resp EXCEPT ![w] = <<ErrorResponse(StatusBadRequest, "Invalid account ID format")>>]
           ELSE \E s \in NewestFirst(ledger, LedgerIndexes(ledger, ObjectIDFromHex(id).oid)) :
                  resp' = [resp EXCEPT ![w] =
                     <<[status |-> StatusOK, success |-> TRUE, error |-> "",
                        transactions |-> Entries(ledger, s)]>>]
    /\ pc' = [pc EXCEPT ![w] = "done"]
    /\ pre' = [pre EXCEPT ![w] = Snapshot(req'[w])]
    /\ account' = [account EXCEPT ![w] = NoAccount]
    /\ UNCHANGED <<accounts, ledger, now, started>>

\* The handler has returned: the worker is free for the next request.
Finish(w) ==
    /\ pc[w] = "done"
    /\ pc' = [pc EXCEPT ![w] = "idle"]
    /\ req' = [req EXCEPT ![w] = NoRequest]
    /\ account' = [account EXCEPT ![w] = NoAccount]
    /\ resp' = [resp EXCEPT ![w] = <<>>]
    /\ pre' = [pre EXCEPT ![w] = NoSnapshot]
    /\ UNCHANGED <<accounts, ledger, now, started>>

Step(w) ==
    \/ BeginCreateAccount(w)
    \/ CreateAccountLookup(w)
    \/ CreateAccountInsert(w)
    \/ BeginCreateTransaction(w)
    \/ ApplyFind(w)
    \/ UpdateBalanceCheck(w)
    \/ UpdateBalanceSet(w)
    \/ ApplyCreate(w)
    \/ ApplyReread(w)
    \/ ApplyReply(w)
    \/ ListAccountTransactions(w)
    \/ Finish(w)

\* Requests served concurrently, one worker each.
Next == \E w \in Workers : Step(w)

Spec == Init /\ [][Next]_vars

\* Requests served one after another.
NextSeq == Step(SeqWorker)

SeqSpec == Init /\ [][NextSeq]_vars

\* ------------------------------------------------- repository-level calls
\* The integration tests call the repositories directly between requests:
\* one caller, one call at a time, each call running to its return.

\* The accounts the caller hands to the repositories.
RepoAccounts == [name : Names, email : Emails, balance : {0, 1}]
\* Transactions: every recognized type and every amount on the stored
\* account ids and on an id no account has, and records with a type that
\* is not recognized, with the zero account id, or with nothing set.
RepoTransactions ==
    [type : {Deposit, Withdraw, Transfer}, amount : Amounts,
     accountId : {NewObjectID} \cup { accounts[i].id : i \in 1..Len(accounts) }]
        \cup [type : {"FOO", "withdraw", ""}, amount : {1}, accountId : {NewObjectID}]
        \cup [type : {Deposit}, amount : {1}, accountId : {NilObjectID}]
        \cup [type : {""}, amount : {0}, accountId : {NilObjectID}]

\* What a repository call returns.
Returned(w, r) == resp' = [resp EXCEPT ![w] = <<r>>]

\* AccountsMongoRepository.CreateAccount
RepoCreateAccount(w) ==
    /\ pc[w] = "idle"
    /\ started.create < MaxCreates
    /\ started.create + started.apply < MaxRequests
    /\ \E a \in RepoAccounts :
        /\ req' = [req EXCEPT ![w] = [kind |-> "repo", op |-> "CreateAccount", account |-> a]]
        /\ IF EmailIndexes(accounts, a.email) # {}
           THEN /\ Returned(w, [err |-> "account with this email already exists"])
                /\ UNCHANGED <<accounts, now>>
           ELSE /\ \E dt \in Elapsed :
                     /\ now' = now + dt
                     /\ accounts' = Append(accounts,
                           [id |-> NewObjectID, balance |-> a.balance, name |-> a.name,
                            email |-> a.email, createdAt |-> now + dt])
                /\ Returned(w, [err |-> ""])
    /\ started' = [started EXCEPT !.create = @ + 1]
    /\ UNCHANGED <<ledger, pc, account, pre>>

\* TransactionMongoRepository.Create
RepoCreate(w) ==
    /\ pc[w] = "idle"
    /\ started.apply < MaxApplies
    /\ started.create + started.apply < MaxRequests
    /\ \E tx \in RepoTransactions :
        /\ req' = [req EXCEPT ![w] = [kind |-> "repo", op |-> "Create", transaction |-> tx]]
        /\ IF ValidateTransaction(tx) # ""
           THEN /\ Returned(w, [err |-> ValidateTransaction(tx)])
                /\ UNCHANGED <<ledger, now>>
           ELSE /\ \E dt \in Elapsed :
                     /\ now' = now + dt
                     /\ ledger' = InsertTransaction(ledger,
                           [id |-> NewObjectID, type |-> tx.type, amount |-> tx.amount,
                            accountId |-> tx.accountId, createdAt |-> now + dt])
                /\ Returned(w, [err |-> ""])
    /\ started' = [started EXCEPT !.apply = @ + 1]
    /\ UNCHANGED <<accounts, pc, account, pre>>

\* TransactionMongoRepository.GetAllTransactions
RepoGetAllTransactions(w) ==
    /\ pc[w] = "idle"
    /\ req' = [req EXCEPT ![w] = [kind |-> "repo", op |-> "GetAllTransactions"]]
    /\ \E s \in NewestFirst(ledger, 1..Len(ledger)) :
          Returned(w, [err |-> "", transactions |-> Entries(ledger, s)])
    /\ UNCHANGED <<accounts, ledger, now, started, pc, account, pre>>

\* The id strings handed to GetByAccountID: those of the requests and
\* the hex of every account id a ledger entry carries.
RepoIdStrings == IdStrings \cup { Hex(ledger[i].accountId) : i \in 1..Len(ledger) }

\* TransactionMongoRepository.GetByAccountID
RepoGetByAccountID(w) ==
    /\ pc[w] = "idle"
    /\ \E id \in RepoIdStrings :
        /\ req' = [req EXCEPT ![w] = [kind |-> "repo", op |-> "GetByAccountID", accountId |-> id]]
        /\ IF id = EmptyIdString
           THEN Returned(w, [err |-> "account ID cannot be empty", transactions |-> <<>>])
           ELSE IF ObjectIDFromHex(id).err # ""
           THEN Returned(w, [err |-> "invalid account ID format", transactions |-> <<>>])
           ELSE \E s \in NewestFirst(ledger, LedgerIndexes(ledger, ObjectIDFromHex(id).oid)) :
                  Returned(w, [err |-> "", transactions |-> Entries(ledger, s)])
    /\ UNCHANGED <<accounts, ledger, now, started, pc, account, pre>>

\* The bson name under which an account document stores its creation
\* time, and the key GetAllAccounts sorts on.
AccountsCreatedAtField == "created_at"
AccountsSortField == "createdAt"

\* The value an account document has under the sort key: its creation
\* time when the key names that field, and the same null for every
\* document when it names a field no document has.
AccountSortValue(a) ==
    IF AccountsSortField = AccountsCreatedAtField THEN a.createdAt ELSE 0

\* The orders in which a sort on the key, descending, may return the
\* accounts: documents with equal values have no defined order.
AccountOrders(accs) ==
    { s \in [1..Len(accs) -> 1..Len(accs)] :
        /\ \A i, j \in 1..Len(accs) : i # j => s[i] # s[j]
        /\ \A i, j \in 1..Len(accs) :
              i < j => AccountSortValue(accs[s[i]]) >= AccountSortValue(accs[s[j]]) }

\* AccountsMongoRepository.GetAllAccounts
RepoGetAllAccounts(w) ==
    /\ pc[w] = "idle"
    /\ req' = [req EXCEPT ![w] = [kind |-> "repo", op |-> "GetAllAccounts"]]
    /\ \E s \in AccountOrders(accounts) :
          Returned(w, [err |-> "", accounts |-> [ i \in 1..Len(accounts) |-> accounts[s[i]] ]])
    /\ UNCHANGED <<accounts, ledger, now, started, pc, account, pre>>

\* Repository calls and listings by account, one after another.
NextRepo ==
    \/ ListAccountTransactions(SeqWorker)
    \/ Finish(SeqWorker)
    \/ RepoCreateAccount(SeqWorker)
    \/ RepoCreate(SeqWorker)
    \/ RepoGetAllTransactions(SeqWorker)
    \/ RepoGetByAccountID(SeqWorker)
    \/ RepoGetAllAccounts(SeqWorker)

RepoSpec == Init /\ [][NextRepo]_vars

\* The balances the caller hands to UpdateBalance.
NewBalances == {-1, 0, 1, 2}

\* AccountsMongoRepository.UpdateBalance
RepoUpdateBalance(w) ==
    /\ pc[w] = "idle"
    /\ \E id \in IdStrings, newBalance \in NewBalances :
        /\ req' = [req EXCEPT ![w] = [kind |-> "repo", op |-> "UpdateBalance",
                                      accountId |-> id, newBalance |-> newBalance]]
        /\ LET r == FindOne(accounts, id)
           IN IF r.err # ""
              THEN /\ Returned(w, [err |-> r.err])
                   /\ UNCHANGED accounts
              ELSE IF BalanceRejected(newBalance)
              THEN /\ Returned(w, [err |-> "balance cannot be negative"])
                   /\ UNCHANGED accounts
              ELSE /\ accounts' = SetBalance(accounts, r.account.id, newBalance)
                   /\ Returned(w, [err |-> ""])
    /\ UNCHANGED <<ledger, now, started, pc, account, pre>>

\* Calls on the account store alone, one after another.
NextAccountStore ==
    \/ RepoCreateAccount(SeqWorker)
    \/ RepoUpdateBalance(SeqWorker)

AccountStoreSpec == Init /\ [][NextAccountStore]_vars

\* ------------------------------------------------------------ observations

Done(w) == pc[w] = "done"
IsApply(w) == req[w].kind = "apply"
IsCreate(w) == req[w].kind = "create"

\* An error envelope, a success envelope, was written to w's writer.
ErrorSent(w) == \E i \in 1..Len(resp[w]) : ~resp[w][i].success
SuccessSent(w) == \E i \in 1..Len(resp[w]) : resp[w][i].success
Rejected(w) == ErrorSent(w) /\ ~SuccessSent(w)

\* The type of w's request as the handler reads it.
TypeOf(w) == ToUpper(req[w].transactionType)

\* The stored balances of the accounts with an id, the number of ledger
\* entries of an id.
BalancesOf(oid) == { accounts[i].balance : i \in AccountIndexes(accounts, oid) }
EntriesOf(oid) == Cardinality(LedgerIndexes(ledger, oid))

\* w's request is an Apply on an account that was stored when it began.
AppliesToAccount(w) == IsApply(w) /\ pre[w].id # NilObjectID

\* The Apply of w left the balance and the ledger of its account as they
\* were when it began.
Untouched(w) ==
    /\ BalancesOf(pre[w].id) = {pre[w].balance}
    /\ EntriesOf(pre[w].id) = pre[w].entries

\* -------------------------------------------------------------------- C1
\* C1: requests served one after another: whenever an Apply has sent its
\* success envelope, the stored balance of its account is >= 0.
C1_SuccessLeavesBalanceNonNegative ==
    \A w \in Workers :
        (Done(w) /\ AppliesToAccount(w) /\ SuccessSent(w))
            => \A b \in BalancesOf(pre[w].id) : b >= 0

\* A withdrawal of the whole balance has succeeded.
C1_Witness ==
    \E w \in Workers :
        /\ Done(w) /\ AppliesToAccount(w) /\ SuccessSent(w)
        /\ TypeOf(w) = Withdraw /\ req[w].amount > 0
        /\ pre[w].balance = req[w].amount
        /\ BalancesOf(pre[w].id) = {0}

\* -------------------------------------------------------------------- C2
\* C2: requests served one after another: a WITHDRAW of more than the
\* account's balance is rejected, and leaves the stored balance and the
\* account's ledger entries as they were before the call.
C2_OverdrawRejectedUntouched ==
    \A w \in Workers :
        (Done(w) /\ AppliesToAccount(w) /\ TypeOf(w) = Withdraw
                 /\ req[w].amount > pre[w].balance)
            => Rejected(w) /\ Untouched(w)

\* A withdrawal of 1 from an account holding 0 has been answered.
C2_Witness ==
    \E w \in Workers :
        /\ Done(w) /\ AppliesToAccount(w) /\ TypeOf(w) = Withdraw
        /\ req[w].amount = 1 /\ pre[w].balance = 0
        /\ ErrorSent(w)

\* -------------------------------------------------------------------- C3
\* C3: no orphan writes: requests served one after another: an Apply that
\* sent an error envelope, whatever its type, amount and account id, leaves
\* the number of ledger entries of its account as it was before the call.
C3_FailedApplyAppendsNothing ==
    \A w \in Workers :
        (Done(w) /\ IsApply(w) /\ ErrorSent(w))
            => EntriesOf(ObjectIDFromHex(req[w].accountId).oid) = pre[w].entries

\* -------------------------------------------------------------------- C4
\* C4: requests served one after another: a DEPOSIT or WITHDRAW of an
\* amount <= 0 on a stored account (here: one whose balance is >= 0) is
\* rejected, and leaves the stored balance and the account's ledger
\* entries as they were before the call.
C4_NonPositiveAmountRejectedUntouched ==
    \A w \in Workers :
        (Done(w) /\ AppliesToAccount(w) /\ TypeOf(w) \in {Deposit, Withdraw}
                 /\ req[w].amount <= 0 /\ pre[w].balance >= 0)
            => Rejected(w) /\ Untouched(w)

\* -------------------------------------------------------------------- C5
\* An Apply in flight whose type is none of DEPOSIT, WITHDRAW, TRANSFER.
Unrecognized(w) ==
    /\ pc[w] \notin {"idle", "done"}
    /\ IsApply(w)
    /\ TypeOf(w) \notin {Deposit, Withdraw, Transfer}

\* C5: an Apply of an unrecognized type has no side effects, also while
\* other Applies run on the same account: no step it takes changes the
\* accounts collection or the ledger.
C5_UnrecognizedTypeWritesNothing ==
    [][ \A w \in Workers :
          (Unrecognized(w) /\ pc'[w] # pc[w])
              => (accounts' = accounts /\ ledger' = ledger) ]_vars

\* -------------------------------------------------------------------- C6
\* C6: requests served one after another: an Apply of type TRANSFER on a
\* stored account is rejected, the balance is unchanged and no entry is
\* appended to the account's ledger.
C6_TransferRejectedUntouched ==
    \A w \in Workers :
        (Done(w) /\ AppliesToAccount(w) /\ TypeOf(w) = Transfer)
            => Rejected(w) /\ Untouched(w)

\* -------------------------------------------------------------------- C7
\* Every worker has completed a successful DEPOSIT of a positive amount on
\* the account oid, all begun at the balance b0.
ConcurrentDepositsDone(oid, b0) ==
    \A w \in Workers :
        /\ Done(w) /\ IsApply(w) /\ SuccessSent(w)
        /\ TypeOf(w) = Deposit /\ req[w].amount > 0
        /\ pre[w].id = oid /\ pre[w].balance = b0

RECURSIVE SumOfAmounts(_)
SumOfAmounts(W) ==
    IF W = {} THEN 0
    ELSE LET w == CHOOSE x \in W : TRUE IN req[w].amount + SumOfAmounts(W \ {w})

\* C7: when every worker has completed a successful DEPOSIT on the same
\* account, all issued at balance b0, the stored balance is b0 plus the sum
\* of the deposited amounts.
C7_ConcurrentDepositsAddUp ==
    \A i \in 1..Len(accounts) : \A b0 \in { pre[w].balance : w \in Workers } :
        ConcurrentDepositsDone(accounts[i].id, b0)
            => accounts[i].balance = b0 + SumOfAmounts(Workers)

\* -------------------------------------------------------------------- C8
\* w's request is a CreateAccount with a name and an email, and an account
\* held that email when the request began.
CreatesDuplicate(w) ==
    /\ IsCreate(w) /\ req[w].name # "" /\ req[w].email # ""
    /\ pre[w].id # NilObjectID

\* C8: requests served one after another: a CreateAccount with the email
\* of a stored account fails with the error of the duplicate email, inserts
\* no account, and leaves that account's id and balance as they were.
C8_DuplicateEmailRejected ==
    \A w \in Workers :
        (Done(w) /\ CreatesDuplicate(w))
            => /\ Rejected(w)
               /\ resp[w][Len(resp[w])].error = "account with this email already exists"
               /\ Len(accounts) = pre[w].accounts
               /\ \E i \in 1..Len(accounts) :
                     /\ accounts[i].email = req[w].email
                     /\ accounts[i].id = pre[w].id
                     /\ accounts[i].balance = pre[w].balance

\* A CreateAccount with a stored account's email has been answered.
C8_Witness ==
    \E w \in Workers : Done(w) /\ CreatesDuplicate(w) /\ Len(accounts) >= 1

\* -------------------------------------------------------------------- C9
\* C9: in every reachable state, also those reached by concurrent
\* CreateAccount requests, no two stored accounts have the same email.
C9_EmailsUnique ==
    \A i, j \in 1..Len(accounts) :
        i # j => accounts[i].email # accounts[j].email

\* ------------------------------------------------------------------- C10
\* C10: the ledger is append-only: every step of every operation keeps
\* every persisted transaction, with all its fields, in the ledger.
C10_LedgerAppendOnly ==
    [][ \A i \in 1..Len(ledger) : \E j \in 1..Len(ledger') : ledger'[j] = ledger[i] ]_vars

\* A transaction was appended to a ledger that already held one, and a
\* listing of the ledger has been served since.
C10_Witness ==
    /\ Len(ledger) >= 2
    /\ \E w \in Workers : Done(w) /\ req[w].kind = "list" /\ SuccessSent(w)

\* ------------------------------------------------------------------- C11
\* A repository call of w has returned.
RepoCalled(w, op) == req[w].kind = "repo" /\ req[w].op = op

\* C11: every persisted transaction has an amount > 0, one of the types
\* DEPOSIT, WITHDRAW, TRANSFER and a non-zero account id, and a Create
\* (Append) on a record that breaks one of these returns an error and
\* leaves the ledger as it was.
C11_PersistedTransactionsValid ==
    /\ [](\A i \in 1..Len(ledger) :
            /\ ledger[i].amount > 0
            /\ ledger[i].type \in {Deposit, Withdraw, Transfer}
            /\ ledger[i].accountId # NilObjectID)
    /\ [][ \A w \in Workers :
             ( /\ started'.apply = started.apply + 1
               /\ req'[w].kind = "repo" /\ req'[w].op = "Create"
               /\ \/ req'[w].transaction.amount <= 0
                  \/ req'[w].transaction.type \notin {Deposit, Withdraw, Transfer}
                  \/ req'[w].transaction.accountId = NilObjectID )
             => (ledger' = ledger /\ resp'[w][1].err # "") ]_vars

\* A Create on a record with amount 0 has returned its error next to a
\* ledger that holds an entry.
C11_Witness ==
    \E w \in Workers :
        /\ RepoCalled(w, "Create")
        /\ req[w].transaction.amount = 0
        /\ req[w].transaction.type = Deposit
        /\ req[w].transaction.accountId # NilObjectID
        /\ resp[w][1].err # ""
        /\ Len(ledger) >= 1

\* ------------------------------------------------------------------- C12
\* C12: in every reachable state, also under concurrent requests, every
\* ledger entry appended by an Apply carries the id of a stored account:
\* the account existed when the entry was appended and exists ever after.
C12_EntriesReferenceStoredAccounts ==
    \A i \in 1..Len(ledger) :
        \E j \in 1..Len(accounts) : accounts[j].id = ledger[i].accountId

\* An Apply on a well-formed id that named no account has been answered
\* with an error, next to a ledger that holds an entry.
C12_Witness ==
    /\ Len(ledger) >= 1
    /\ \E w \in Workers :
          /\ Done(w) /\ IsApply(w) /\ Rejected(w)
          /\ req[w].accountId[1] = "hex"
          /\ \A j \in 1..Len(accounts) : Hex(accounts[j].id) # req[w].accountId

\* ------------------------------------------------------------------- C13
\* C13: requests served one after another: balance update and ledger
\* entry come in pairs.  A completed Apply on a stored account has either
\* appended its ledger entry, or left the stored balance as it was: none
\* leaves a changed balance without a ledger entry of the same call.
C13_BalanceUpdatePairedWithEntry ==
    \A w \in Workers :
        (Done(w) /\ AppliesToAccount(w) /\ pre[w].balance >= 0)
            => \/ EntriesOf(pre[w].id) = pre[w].entries + 1
               \/ BalancesOf(pre[w].id) = {pre[w].balance}

\* ------------------------------------------------------------------- C14
\* C14: requests served one after another: within one Apply the ledger's
\* Create is called only after UpdateBalance returned nil, so at every
\* step that appends an entry the store holds the balance the call
\* computed, and that balance is >= 0; and an Apply whose UpdateBalance
\* returned an error ends with that error as its last envelope, without
\* an entry appended and without an error of Create among its envelopes.
C14_AppendOnlyAfterUpdateBalance ==
    /\ [](\A w \in Workers :
            (Done(w) /\ AppliesToAccount(w) /\ account[w].balance < 0)
                => /\ resp[w][Len(resp[w])] =
                         ErrorResponse(StatusInternalServerError, "balance cannot be negative")
                   /\ EntriesOf(pre[w].id) = pre[w].entries
                   /\ \A i \in 1..Len(resp[w]) :
                         resp[w][i].error \notin
                            { "transaction type is required", "amount must be greater than 0",
                              "account ID is required", "invalid transaction type" })
    /\ [][ \A w \in Workers :
             (pc[w] = "ct_create" /\ Len(ledger') = Len(ledger) + 1)
                => /\ BalancesOf(account[w].id) = {account[w].balance}
                   /\ account[w].balance >= 0 ]_vars

\* After an entry was appended to the ledger, a withdrawal beyond the
\* balance has been answered with the error of UpdateBalance.
C14_Witness ==
    \E w \in Workers :
        /\ Done(w) /\ AppliesToAccount(w)
        /\ TypeOf(w) = Withdraw /\ req[w].amount > pre[w].balance
        /\ pre[w].balance >= 0 /\ account[w].balance < 0
        /\ pre[w].entries >= 1
        /\ Rejected(w)

\* ------------------------------------------------------------------- C15
\* The error FindOne returns for an id string that names no account.
LookupErrorOf(id) ==
    CASE id = EmptyIdString -> "account ID cannot be empty"
      [] id = MalformedIdString -> "invalid account ID format"
      [] OTHER -> "account not found"

\* w's request is an Apply on an id that named no account when it began.
AppliesToNoAccount(w) == IsApply(w) /\ pre[w].id = NilObjectID

\* C15: requests served one after another: an Apply whose accountId is
\* empty, malformed or names no stored account is answered with the one
\* error of the lookup, and no step of it writes a balance or changes the
\* ledger.
C15_UnknownAccountFailsAtLookup ==
    /\ [](\A w \in Workers :
            (Done(w) /\ AppliesToNoAccount(w))
                => resp[w] = <<ErrorResponse(StatusBadRequest, LookupErrorOf(req[w].accountId))>>)
    /\ [][ \A w \in Workers :
             AppliesToNoAccount(w) => (accounts' = accounts /\ ledger' = ledger) ]_vars

\* An Apply on a malformed id has been answered while an account with a
\* ledger entry is stored.
C15_Witness ==
    \E w \in Workers :
        /\ Done(w) /\ AppliesToNoAccount(w)
        /\ req[w].accountId = MalformedIdString
        /\ Len(accounts) >= 1 /\ Len(ledger) >= 1

\* ------------------------------------------------------------------- C16
\* C16: requests served one after another: an Apply of DEPOSIT or
\* WITHDRAW with amount a > 0 that has sent its success envelope changed
\* the stored balance by exactly +a or -a and appended exactly one ledger
\* entry, the newest one, with that type, amount and account id.
C16_SuccessfulApplyEffect ==
    /\ [](\A w \in Workers :
            ( /\ Done(w) /\ AppliesToAccount(w) /\ SuccessSent(w)
              /\ req[w].amount > 0 /\ TypeOf(w) \in {Deposit, Withdraw} )
            => /\ BalancesOf(pre[w].id) =
                    { IF TypeOf(w) = Deposit THEN pre[w].balance + req[w].amount
                                             ELSE pre[w].balance - req[w].amount }
               /\ EntriesOf(pre[w].id) = pre[w].entries + 1
               /\ Len(ledger) >= 1
               /\ ledger[Len(ledger)].type = TypeOf(w)
               /\ ledger[Len(ledger)].amount = req[w].amount
               /\ ledger[Len(ledger)].accountId = pre[w].id)
    /\ [][ \A w \in Workers :
             AppliesToAccount(w)
                => /\ Len(ledger') <= Len(ledger) + 1
                   /\ \A i \in 1..Len(ledger') :
                         i > Len(ledger) => ledger'[i].accountId = pre[w].id ]_vars

\* A deposit on an account that already had a ledger entry has succeeded.
C16_Witness ==
    \E w \in Workers :
        /\ Done(w) /\ AppliesToAccount(w) /\ SuccessSent(w)
        /\ TypeOf(w) = Deposit /\ req[w].amount > 0
        /\ pre[w].entries >= 1
        /\ EntriesOf(pre[w].id) = pre[w].entries + 1

\* ------------------------------------------------------------------- C17
\* The success envelope of w's request.
SuccessEnvelope(w) == resp[w][CHOOSE i \in 1..Len(resp[w]) : resp[w][i].success]

\* C17: also under concurrent Applies, the reply of a successful Apply is
\* a snapshot of one store state: the store was, at some instant, in a
\* state with the returned balance and exactly the returned history of
\* the account, and the history holds an entry with the type and amount
\* of this Apply.
C17_ReplyIsOneStoreState ==
    \A w \in Workers :
        (Done(w) /\ AppliesToAccount(w) /\ SuccessSent(w) /\ pre[w].balance >= 0)
            => /\ pre[w].seen = Len(SuccessEnvelope(w).transactions)
               /\ \E i \in 1..Len(SuccessEnvelope(w).transactions) :
                     /\ SuccessEnvelope(w).transactions[i].type = TypeOf(w)
                     /\ SuccessEnvelope(w).transactions[i].amount = req[w].amount
                     /\ SuccessEnvelope(w).transactions[i].accountId = SuccessEnvelope(w).account.id

\* ------------------------------------------------------------------- C18
\* The place of a returned transaction in the ledger's insertion order.
AppendedAt(tx) == CHOOSE k \in 1..Len(ledger) : ledger[k].id = tx.id

\* The transactions the latest listing of w returned: a repository call
\* of GetAllTransactions or GetByAccountID, or a served GET by account.
Listed(w) ==
    IF (RepoCalled(w, "GetAllTransactions") \/ RepoCalled(w, "GetByAccountID")) /\ resp[w][1].err = ""
    THEN resp[w][1].transactions
    ELSE IF Done(w) /\ req[w].kind = "list" /\ SuccessSent(w)
    THEN resp[w][1].transactions
    ELSE <<>>

\* C18: ListAll and ListByAccount return newest first: of any two
\* returned transactions the one appended later comes earlier.
C18_ListsNewestFirst ==
    \A w \in Workers :
        \A i, j \in 1..Len(Listed(w)) :
            i < j => AppendedAt(Listed(w)[i]) > AppendedAt(Listed(w)[j])

\* ------------------------------------------------------------------- C19
\* The latest call of w is a listing by account id that returned no error.
ListedByAccount(w) ==
    \/ RepoCalled(w, "GetByAccountID") /\ resp[w][1].err = ""
    \/ Done(w) /\ req[w].kind = "list" /\ SuccessSent(w)

\* C19: after any sequence of appends on several account ids, a listing
\* by account id returns exactly the persisted transactions that carry
\* the id: each of them once, and no other.
C19_ListByAccountExact ==
    \A w \in Workers :
        ListedByAccount(w)
            => /\ \A i, j \in 1..Len(Listed(w)) : i # j => Listed(w)[i] # Listed(w)[j]
               /\ { Listed(w)[i] : i \in 1..Len(Listed(w)) }
                     = { ledger[k] : k \in { n \in 1..Len(ledger) :
                                              Hex(ledger[n].accountId) = req[w].accountId } }

\* A listing by account id returned one transaction of a ledger that holds
\* two, on different account ids.
C19_Witness ==
    \E w \in Workers :
        /\ ListedByAccount(w)
        /\ Len(Listed(w)) = 1
        /\ Len(ledger) = 2
        /\ ledger[1].accountId # ledger[2].accountId

\* ------------------------------------------------------------------- C20
\* C20: GetAllAccounts (ListAll of the account store) returns every
\* stored account once, ordered by creation time descending: no returned
\* account was created before one that comes after it.
C20_AccountsNewestFirst ==
    \A w \in Workers :
        RepoCalled(w, "GetAllAccounts")
            => /\ Len(resp[w][1].accounts) = Len(accounts)
               /\ \A k \in 1..Len(accounts) :
                     \E i \in 1..Len(resp[w][1].accounts) : resp[w][1].accounts[i] = accounts[k]
               /\ \A i, j \in 1..Len(resp[w][1].accounts) :
                     i < j => resp[w][1].accounts[i].createdAt >= resp[w][1].accounts[j].createdAt

\* ------------------------------------------------------------------- C21
\* The error kind of an error envelope, by the error it carries: an absent
\* account; a bad amount, a bad type, a balance that would be negative, a
\* malformed id; a duplicate email; a failure of the store.
KindOf(error) ==
    CASE error = "account not found" -> "NotFound"
      [] error \in { "amount must be greater than 0", "Invalid transaction type",
                     "balance cannot be negative", "invalid account ID format" }
            -> "InvalidArgument"
      [] error = "account with this email already exists" -> "Conflict"
      [] error = "Failed to fetch updated account" -> "Internal"
      [] OTHER -> "Unclassified"

\* C21: each error kind has its own outward status: any two error
\* envelopes, of any handlers, that carry errors of different kinds carry
\* different statuses.
C21_KindsHaveDistinctStatuses ==
    \A w, v \in Workers :
        \A i \in 1..Len(resp[w]) : \A j \in 1..Len(resp[v]) :
            ( /\ ~resp[w][i].success /\ ~resp[v][j].success
              /\ KindOf(resp[w][i].error) # "Unclassified"
              /\ KindOf(resp[v][j].error) # "Unclassified"
              /\ KindOf(resp[w][i].error) # KindOf(resp[v][j].error) )
            => resp[w][i].status # resp[v][j].status

\* ------------------------------------------------------------------- C22
\* w's request is a CreateAccount whose body has no name or no email.
CreatesWithoutNameOrEmail(w) ==
    IsCreate(w) /\ (req[w].name = "" \/ req[w].email = "")

\* C22: requests served one after another: a CreateAccount with an empty
\* or missing name or email is answered with the one bad-request error of
\* the validation without reaching the store: it never stands at the
\* lookup or the insert, and no step of it changes the stored accounts.
C22_InvalidCreateRejectedBeforeStore ==
    /\ [](\A w \in Workers :
            CreatesWithoutNameOrEmail(w)
                => /\ Done(w)
                   /\ resp[w] = <<ErrorResponse(StatusBadRequest,
                                     IF req[w].name = "" THEN "Name is required"
                                                         ELSE "Email is required")>>
                   /\ Len(accounts) = pre[w].accounts)
    /\ [][ \A w \in Workers :
             (CreatesWithoutNameOrEmail(w) \/ CreatesWithoutNameOrEmail(w)')
                => accounts' = accounts ]_vars

\* A CreateAccount that has a name and no email has been answered while
\* an account is stored.
C22_Witness ==
    \E w \in Workers :
        /\ Done(w) /\ IsCreate(w)
        /\ req[w].name # "" /\ req[w].email = ""
        /\ Rejected(w)
        /\ Len(accounts) >= 1

\* ------------------------------------------------------------------- C23
\* C23: in every reachable state every stored account has a balance
\* >= 0, whatever initial balance the CreateAccount requests carried and
\* whatever Applies were served.
C23_StoredBalancesNonNegative ==
    \A i \in 1..Len(accounts) : accounts[i].balance >= 0

\* ------------------------------------------------------------------- C24
\* C24: a call UpdateBalance(id, newBalance): on a stored account and
\* newBalance < 0 it returns an error and leaves the accounts as they
\* were; on a stored account and newBalance >= 0, 0 included, it returns
\* no error and the account's stored balance becomes newBalance itself,
\* nothing else changing; on an id that names no account it returns the
\* error of the lookup and leaves the accounts as they were.
C24_UpdateBalanceContract ==
    [][ \A w \in Workers :
          (req'[w].kind = "repo" /\ req'[w].op = "UpdateBalance")
          => LET id == req'[w].accountId
                 nb == req'[w].newBalance
                 known == \E i \in 1..Len(accounts) : Hex(accounts[i].id) = id
             IN /\ (known /\ nb < 0)
                      => (resp'[w][1].err # "" /\ accounts' = accounts)
                /\ (known /\ nb >= 0)
                      => /\ resp'[w][1].err = ""
                         /\ accounts' = [ i \in 1..Len(accounts) |->
                               IF Hex(accounts[i].id) = id
                               THEN [accounts[i] EXCEPT !.balance = nb]
                               ELSE accounts[i] ]
                /\ ~known
                      => (resp'[w][1].err = LookupErrorOf(id) /\ accounts' = accounts) ]_vars

\* UpdateBalance has stored 2, a balance no account is created with, next
\* to a second account.
C24_Witness ==
    \E w \in Workers :
        /\ RepoCalled(w, "UpdateBalance")
        /\ req[w].newBalance = 2
        /\ resp[w][1].err = ""
        /\ Len(accounts) = 2
        /\ \E i \in 1..Len(accounts) :
              Hex(accounts[i].id) = req[w].accountId /\ accounts[i].balance = 2

\* ------------------------------------------------------------------- C25
\* The last envelope of w's Apply is an error of the ledger's Create.
CreateFailed(w) ==
    /\ IsApply(w) /\ Len(resp[w]) >= 1
    /\ resp[w][Len(resp[w])].error \in
          { "transaction type is required", "amount must be greater than 0",
            "account ID is required", "invalid transaction type" }

\* C25: requests served one after another: no compensation and no retry.
\* An Apply whose Create failed after its UpdateBalance succeeded has
\* answered 400 with the error of Create, the balance it computed is the
\* stored one, and no entry was appended; the step in which Create fails
\* ends the request and writes nothing, and a request that has ended
\* writes nothing more.
C25_NoCompensationNoRetry ==
    /\ [](\A w \in Workers :
            (Done(w) /\ AppliesToAccount(w) /\ CreateFailed(w))
                => /\ resp[w][Len(resp[w])].status = StatusBadRequest
                   /\ BalancesOf(pre[w].id) =
                        { CASE TypeOf(w) = Deposit -> pre[w].balance + req[w].amount
                            [] TypeOf(w) = Withdraw -> pre[w].balance - req[w].amount
                            [] OTHER -> pre[w].balance }
                   /\ EntriesOf(pre[w].id) = pre[w].entries)
    /\ [][ \A w \in Workers :
             /\ (pc[w] = "ct_create" /\ pc'[w] # "ct_create" /\ ledger' = ledger)
                   => (pc'[w] = "done" /\ CreateFailed(w)' /\ accounts' = accounts)
             /\ (IsApply(w) /\ Done(w))
                   => (accounts' = accounts /\ ledger' = ledger) ]_vars

\* A withdrawal of a negative amount has raised the stored balance and
\* has been answered with the error of Create.
C25_Witness ==
    \E w \in Workers :
        /\ Done(w) /\ AppliesToAccount(w) /\ CreateFailed(w)
        /\ TypeOf(w) = Withdraw /\ req[w].amount < 0
        /\ BalancesOf(pre[w].id) = {pre[w].balance - req[w].amount}

\* ------------------------------------------------------------------- C26
\* C26: requests served one after another: no step of an Apply on account
\* A creates or deletes an account, changes the balance of another
\* account, or changes the id, name, email or createdAt of any account,
\* A included.
C26_ApplyFrame ==
    [][ \A w \in Workers :
          (IsApply(w) \/ IsApply(w)')
          => LET A == IF IsApply(w) THEN req[w].accountId ELSE req'[w].accountId
             IN /\ Len(accounts') = Len(accounts)
                /\ \A i \in 1..Len(accounts) :
                      IF Hex(accounts[i].id) = A
                      THEN [accounts'[i] EXCEPT !.balance = 0] = [accounts[i] EXCEPT !.balance = 0]
                      ELSE accounts'[i] = accounts[i] ]_vars

\* A deposit on one of two stored accounts has succeeded and has changed
\* that account's balance.
C26_Witness ==
    \E w \in Workers :
        /\ Done(w) /\ AppliesToAccount(w) /\ SuccessSent(w)
        /\ Len(accounts) = 2
        /\ BalancesOf(pre[w].id) # {pre[w].balance}
        /\ \E i \in 1..Len(accounts) :
              accounts[i].id # pre[w].id /\ accounts[i].balance # pre[w].balance + req[w].amount

\* ------------------------------------------------------------------- C27
\* C27: under every interleaving: an account created with a balance >= 0
\* has a stored balance >= 0 for as long as the reply to its creation
\* stands, and no step stores a negative balance on an account whose
\* stored balance was >= 0; so that an account created with balance >= 0
\* has a stored balance >= 0 in every reachable state.
C27_ConcurrentBalancesStayNonNegative ==
    /\ [](\A w \in Workers :
            (Done(w) /\ IsCreate(w) /\ SuccessSent(w) /\ req[w].balance >= 0)
                => \A b \in BalancesOf(account[w].id) : b >= 0)
    /\ [][ \A i \in 1..Len(accounts) :
             accounts[i].balance >= 0 => accounts'[i].balance >= 0 ]_vars

\* Two withdrawals of the whole balance were issued at the same balance
\* of one account; the account is at zero.
C27_Witness ==
    /\ \A w \in Workers :
          /\ Done(w) /\ AppliesToAccount(w)
          /\ TypeOf(w) = Withdraw /\ req[w].amount > 0
          /\ pre[w].balance = req[w].amount
    /\ \E w \in Workers : SuccessSent(w)
    /\ \E i \in 1..Len(accounts) :
          /\ accounts[i].balance = 0
          /\ \A w \in Workers : pre[w].id = accounts[i].id

\* ------------------------------------------------------------------- C28
\* The sum of the amounts of the ledger entries at the indexes I.
RECURSIVE SumOfEntries(_)
SumOfEntries(I) ==
    IF I = {} THEN 0
    ELSE LET i == CHOOSE x \in I : TRUE IN ledger[i].amount + SumOfEntries(I \ {i})

\* The sum of the amounts of the ledger entries of one account and type.
LedgerSum(oid, type) ==
    SumOfEntries({ i \in LedgerIndexes(ledger, oid) : ledger[i].type = type })

\* Every worker has served an Apply of a positive amount on the account
\* oid, all begun at the balance b0 >= 0 with no ledger entry of the
\* account: b0 is the balance the account had before any ledger entry.
ConcurrentAppliesFrom(oid, b0) ==
    /\ b0 >= 0
    /\ \A w \in Workers :
          /\ Done(w) /\ AppliesToAccount(w) /\ req[w].amount > 0
          /\ pre[w].id = oid /\ pre[w].balance = b0 /\ pre[w].entries = 0

\* C28: under every interleaving of Apply calls of positive amounts on one
\* account that had the balance b0 >= 0 before them, once the calls have
\* returned the amounts of its WITHDRAW ledger entries sum to at most b0
\* plus the sum of the amounts of its DEPOSIT ledger entries.
C28_NoOverdraftThroughLedger ==
    \A i \in 1..Len(accounts) : \A b0 \in { pre[w].balance : w \in Workers } :
        ConcurrentAppliesFrom(accounts[i].id, b0)
            => LedgerSum(accounts[i].id, Withdraw)
                  <= b0 + LedgerSum(accounts[i].id, Deposit)

\* ------------------------------------------------------------------- C29
\* The indexes of the ledger entries of w's account that were appended
\* since w's request began, of one type.
AppendedSince(w, type) ==
    LET I == LedgerIndexes(ledger, pre[w].id)
    IN { i \in I : /\ Cardinality({ j \in I : j < i }) >= pre[w].entries
                   /\ ledger[i].type = type }

\* C29: requests served one after another: a completed Apply has changed
\* the stored balance of its account by the amounts of the DEPOSIT entries
\* it appended minus the amounts of the WITHDRAW entries it appended; so
\* that after any sequence of Applies the balance is the initial balance
\* plus the DEPOSIT amounts minus the WITHDRAW amounts of the ledger.
C29_AccountingEquation ==
    \A w \in Workers :
        (Done(w) /\ AppliesToAccount(w) /\ pre[w].balance >= 0)
            => BalancesOf(pre[w].id) =
                  { pre[w].balance + SumOfEntries(AppendedSince(w, Deposit))
                                   - SumOfEntries(AppendedSince(w, Withdraw)) }

\* ------------------------------------------------------------------- C30
\* C30: a CreateTransaction request that the handler has returned from,
\* on no account or on an account whose balance was >= 0, has had exactly
\* one response envelope written to its writer.
C30_ExactlyOneEnvelope ==
    \A w \in Workers :
        (Done(w) /\ IsApply(w) /\ pre[w].balance >= 0) => Len(resp[w]) = 1

====
